---------------------------- MODULE Spec2Model ----------------------------
(***************************************************************************)
(* A model of organize.py: synonym consolidation of a note's tags,         *)
(* inference of parent category tags, classification into a main folder    *)
(* and a subfolder, and the vault walk that moves every note to its        *)
(* folder.                                                                 *)
(*                                                                         *)
(* Strings are TLA+ strings.  The string methods the program uses          *)
(* (str.lower, str.replace, str.strip, str.startswith, sorted) are         *)
(* operators that list what the method does on every string of the         *)
(* bounded input universe and are the identity only where the method is.   *)
(* A dict is the sequence of its (key, value) items in insertion order.    *)
(* A Python set is a TLA+ set; turning it into a list, or iterating it,    *)
(* takes the elements in an order the program does not control (string     *)
(* hashing is randomised per process), so the order is chosen              *)
(* nondeterministically.                                                   *)
(***************************************************************************)
EXTENDS Naturals, Sequences, FiniteSets

VARIABLES
    pc,            \* position of the driver of the functions
    yaml_data,     \* the metadata given to the functions: [tags, infobox]
    once,          \* consolidate_tags(tags)
    twice,         \* consolidate_tags(consolidate_tags(tags))
    parents,       \* add_parent_tags_for_subcategories(tags)
    result,        \* classify_file(yaml_data)
    other_data,    \* a second metadata with the same labels and infobox
    other_result,  \* classify_file(other_data)
    vault0,        \* the files of the vault when organize_vault starts
    vault,         \* the files of the vault now
    walk,          \* os.walk: the directories left, and the files left in
                   \* the directory being visited
    tag_to_files_map  \* organize_vault's map from tag to file paths

fnvars == <<yaml_data, once, twice, parents, result, other_data, other_result>>

vaultvars == <<vault0, vault, walk, tag_to_files_map>>

vars == <<pc, fnvars, vaultvars>>

\* ------------------------------------------------------------------ bounds

\* The longest tag list of a note's metadata.
MaxTags == 2

\* The most files a vault holds when organize_vault starts.
MaxNotes == 2

\* ----------------------------------------------------------- configuration

CATEGORY_RULES ==
    << <<"characters", "1_People">>,
       <<"locations", "2_Locations">>,
       <<"factions", "3_Factions">>,
       <<"items", "4_Items">>,
       <<"magic", "5_Magic">>,
       <<"lore", "6_Lore">>,
       <<"races", "7_Races">>,
       <<"creatures", "8_Beastiary">>,
       <<"dragons", "1_People">>,
       <<"elves", "7_Races">>,
       <<"events", "6_Lore">> >>

INFBOX_TO_CATEGORY_KEY ==
    << <<"character", "characters">>,
       <<"location", "locations">>,
       <<"faction", "factions">>,
       <<"item", "items">> >>

DEFAULT_FOLDER == "9_Miscellaneous"

SUBCATEGORY_RULES ==
    << <<"2_Locations",
         << <<"cities", "Cities">>,
            <<"towns", "Towns">>,
            <<"inns", "Establishments">>,
            <<"brothels", "Establishments">>,
            <<"fighting pits", "Establishments">>,
            <<"nations", "Nations">>,
            <<"wilderness", "Wilderness">>,
            <<"forests", "Wilderness">>,
            <<"mountains", "Wilderness">>,
            <<"seas", "Wilderness">>,
            <<"ruins", "Ruins">>,
            <<"continents", "Continents">>,
            <<"roads", "Roads">>,
            <<"fortifications", "Fortifications">> >> >>,
       <<"3_Factions",
         << <<"nobility", "Nobility">> >> >>,
       <<"4_Items",
         << <<"weapons", "Weapons">>,
            <<"armor", "Armor">>,
            <<"minerals", "Minerals">>,
            <<"flora", "Flora">> >> >>,
       <<"6_Lore",
         << <<"history", "History">>,
            <<"mythology", "Mythology">>,
            <<"languages", "Languages">>,
            <<"religion", "Religion">>,
            <<"conflicts", "Conflicts">>,
            <<"events", "Events">>,
            <<"holidays", "Holidays">> >> >> >>

TAG_CONSOLIDATION ==
    << <<"forts", "fortifications">>,
       <<"castles", "fortifications">>,
       <<"institutions", "factions">>,
       <<"organisations", "factions">>,
       <<"military units", "factions">>,
       <<"mercenary bands", "factions">>,
       <<"noble houses", "nobility">>,
       <<"notable families", "factions">>,
       <<"settlement", "towns">>,
       <<"towns_and_villages", "towns">>,
       <<"towns and villages", "towns">>,
       <<"mountain ranges", "mountains">>,
       <<"mountain_ranges", "mountains">>,
       <<"territorial_regions", "nations">>,
       <<"territorial regions", "nations">>,
       <<"wars", "conflicts">>,
       <<"battles", "conflicts">> >>

\* ------------------------------------------------------------------- dicts

\* The keys of a dict, as a set.
Keys(items) == {items[i][1] : i \in 1..Len(items)}

\* key in dict
HasKey(items, key) == \E i \in 1..Len(items) : items[i][1] = key

\* dict.get(key, default): a later item of the same key overwrites an
\* earlier one.
DictGet(items, key, default) ==
    IF HasKey(items, key)
    THEN LET last == CHOOSE i \in 1..Len(items) :
                         /\ items[i][1] = key
                         /\ \A j \in (i + 1)..Len(items) : items[j][1] # key
         IN  items[last][2]
    ELSE default


\* ----------------------------------------------------------------- strings

\* A tag-list entry that is not a str (an int, None, a nested list).
NonStr == "<not a str>"

\* isinstance(t, str)
IsStr(t) == t # NonStr

\* The strings a tag list is drawn from: category keys, subcategory keys,
\* synonym keys, the same in other case, with underscores or padded with
\* whitespace, labels of no table, and NonStr.
RawTags ==
    { "characters", "locations", "lore",
      "cities", "ruins", "nations", "history",
      "fighting pits", "fighting_pits",
      "forts", "fortifications", "mountain_ranges",
      "old gods", "old_gods",
      "unknown", " Lore", NonStr }

\* The values of the infobox field; "" is what classify_file reads when the
\* field is absent.
RawInfobox == { "", " Location", "book" }

\* str.lower()
Lower(s) ==
    CASE s = "Ruins" -> "ruins"
      [] s = " Lore" -> " lore"
      [] s = "Lore" -> "lore"
      [] s = "_Lore" -> "_lore"
      [] s = " Location" -> " location"
      [] s = "Location" -> "location"
      [] s = "_Location" -> "_location"
      [] s = "Template_note" -> "template_note"
      [] OTHER -> s

\* str.replace('_', ' ')
ReplaceUnderscores(s) ==
    CASE s = "fighting_pits" -> "fighting pits"
      [] s = "mountain_ranges" -> "mountain ranges"
      [] s = "old_gods" -> "old gods"
      [] s = "_lore" -> " lore"
      [] s = "_Lore" -> " Lore"
      [] s = "_location" -> " location"
      [] s = "_Location" -> " Location"
      [] OTHER -> s

\* str.replace(' ', '_')
ReplaceSpaces(s) ==
    CASE s = "fighting pits" -> "fighting_pits"
      [] s = "mountain ranges" -> "mountain_ranges"
      [] s = "old gods" -> "old_gods"
      [] s = " lore" -> "_lore"
      [] s = " Lore" -> "_Lore"
      [] s = " location" -> "_location"
      [] s = " Location" -> "_Location"
      [] OTHER -> s

\* str.strip()
Strip(s) ==
    CASE s = " lore" -> "lore"
      [] s = " Lore" -> "Lore"
      [] s = " location" -> "location"
      [] s = " Location" -> "Location"
      [] OTHER -> s

\* The strings of the model in the order Python compares them (by code
\* point: ' ' < 'A'..'Z' < '_' < 'a'..'z').
StringOrder ==
    << " Lore", " lore", "Lore", "Ruins", "_Lore", "_lore", "characters", "cities", "events",
       "fighting pits", "fighting_pits", "fortifications", "forts",
       "history", "locations", "lore", "mountain ranges",
       "mountain_ranges", "mountains", "nations", "old gods", "old_gods",
       "ruins", "unknown" >>

\* The place of each string in that order.
StringRank ==
    [s \in {StringOrder[i] : i \in 1..Len(StringOrder)} |->
        CHOOSE i \in 1..Len(StringOrder) : StringOrder[i] = s]

\* s < t for two strings
StrLess(s, t) == StringRank[s] < StringRank[t]

\* sorted(S) for a collection of distinct strings
RECURSIVE Sorted(_)
Sorted(S) ==
    IF S = {} THEN << >>
    ELSE LET least == CHOOSE s \in S : \A t \in S \ {s} : StrLess(s, t)
         IN  <<least>> \o Sorted(S \ {least})

\* The elements of a list, as a set.
Range(seq) == {seq[i] : i \in 1..Len(seq)}

\* -------------------------------------------------------- consolidate_tags

\* {tag.lower().replace('_', ' ').strip() for tag in tags}
NormalizeInput(tag) == Strip(ReplaceUnderscores(Lower(tag)))

normalized_input_tags(tags) == {NormalizeInput(tags[i]) : i \in 1..Len(tags)}

\* TAG_CONSOLIDATION.get(input_tag, input_tag)
Replacement(input_tag) == DictGet(TAG_CONSOLIDATION, input_tag, input_tag)

\* The tags that were replaced by another one.
Replacements(tags) ==
    {t \in normalized_input_tags(tags) : Replacement(t) # t}

\* final_tags with a loop that stops after the first tag it replaced: the
\* other synonym sources stay as they are.
FinalTagsFirstOnly(tags) ==
    LET sources == Replacements(tags)
        first == IF sources = {} THEN {}
                 ELSE {CHOOSE s \in sources : \A t \in sources \ {s} : StrLess(s, t)}
    IN  (normalized_input_tags(tags) \ first) \cup {Replacement(s) : s \in first}

\* final_tags with the replaced tags kept beside their replacements.
FinalTagsKeepSources(tags) ==
    normalized_input_tags(tags)
    \cup {Replacement(t) : t \in normalized_input_tags(tags)}

\* [tag for tag in consolidated if tag not in replacements]
final_tags(tags) ==
    {Replacement(t) : t \in normalized_input_tags(tags)} \ Replacements(tags)

\* The first original tag that is the tag but for case and underscores, in
\* lower case; the tag with underscores for spaces when there is none.
restore_formatting(tags, tag) ==
    LET same == {i \in 1..Len(tags) : ReplaceUnderscores(Lower(tags[i])) = tag}
    IN  IF same # {}
        THEN Lower(tags[CHOOSE i \in same : \A j \in same : i <= j])
        ELSE ReplaceSpaces(tag)

consolidate_tags(tags) ==
    Sorted({restore_formatting(tags, tag) : tag \in final_tags(tags)})


\* --------------------------------------- add_parent_tags_for_subcategories

\* A Python None.
None == "<None>"

\* set(t.lower() for t in tags if isinstance(t, str))
tags_lower(tags) == {Lower(tags[i]) : i \in {j \in 1..Len(tags) : IsStr(tags[j])}}

\* [k for k, v in CATEGORY_RULES.items() if v == parent_folder]
RECURSIVE parent_tags(_, _)
parent_tags(parent_folder, n) ==
    IF n = 0 THEN << >>
    ELSE parent_tags(parent_folder, n - 1)
         \o (IF CATEGORY_RULES[n][2] = parent_folder
             THEN << CATEGORY_RULES[n][1] >> ELSE << >>)

\* The assignments subcat_to_parent[subcat_tag.lower()] = ptag.lower() of one
\* subcategory tag, one for each parent tag, in order.
RECURSIVE ParentItemsOfTag(_, _, _)
ParentItemsOfTag(subcat_tag, ptags, n) ==
    IF n = 0 THEN << >>
    ELSE Append(ParentItemsOfTag(subcat_tag, ptags, n - 1),
                << Lower(subcat_tag), Lower(ptags[n]) >>)

\* The assignments of the first n subcategory tags of one folder.
RECURSIVE ParentItemsOfFolder(_, _, _)
ParentItemsOfFolder(parent_folder, subcats, n) ==
    IF n = 0 THEN << >>
    ELSE LET ptags == parent_tags(parent_folder, Len(CATEGORY_RULES))
         IN  ParentItemsOfFolder(parent_folder, subcats, n - 1)
             \o ParentItemsOfTag(subcats[n][1], ptags, Len(ptags))

\* The assignments of the first n folders of SUBCATEGORY_RULES.
RECURSIVE ParentItems(_)
ParentItems(n) ==
    IF n = 0 THEN << >>
    ELSE ParentItems(n - 1)
         \o ParentItemsOfFolder(SUBCATEGORY_RULES[n][1], SUBCATEGORY_RULES[n][2],
                                Len(SUBCATEGORY_RULES[n][2]))

\* The dict the loops build: a later assignment to a key overwrites.
subcat_to_parent == ParentItems(Len(SUBCATEGORY_RULES))

\* The parent tag the loop adds for a tag of the set.
ParentOf(tag) == DictGet(subcat_to_parent, tag, None)

\* tags_lower after the loop: every tag of the copy with an entry brings its
\* parent tag.
ParentsAdded(tags) ==
    tags_lower(tags)
    \cup {ParentOf(t) : t \in {u \in tags_lower(tags) : HasKey(subcat_to_parent, u)}}

\* added_tags set for every tag with a parent, missing or not.
AddedTagsWheneverParent(tags) ==
    \E t \in tags_lower(tags) : HasKey(subcat_to_parent, t)

\* added_tags: some parent tag was not in the set when its tag was visited.
added_tags(tags) ==
    \E t \in tags_lower(tags) :
        /\ HasKey(subcat_to_parent, t)
        /\ ParentOf(t) \notin tags_lower(tags)

\* list(S): the lists that hold every element of the set once.
RECURSIVE ListsOf(_)
ListsOf(S) ==
    IF S = {} THEN { << >> }
    ELSE UNION { { <<x>> \o rest : rest \in ListsOf(S \ {x}) } : x \in S }

\* What add_parent_tags_for_subcategories(tags) can return.
add_parent_tags_for_subcategories(tags) ==
    { <<order, added_tags(tags)>> : order \in ListsOf(ParentsAdded(tags)) }

\* ----------------------------------------------------------- classify_file

\* INFBOX_TO_CATEGORY_KEY.get(infobox.lower().strip(), "") for a str
infobox_key(infobox) ==
    IF IsStr(infobox)
    THEN DictGet(INFBOX_TO_CATEGORY_KEY, Strip(Lower(infobox)), "")
    ELSE ""

\* [t.lower() for t in tags if isinstance(t, str)]
RECURSIVE LowerStrs(_)
LowerStrs(tags) ==
    IF tags = << >> THEN << >>
    ELSE (IF IsStr(Head(tags)) THEN << Lower(Head(tags)) >> ELSE << >>)
         \o LowerStrs(Tail(tags))

\* The tag list handed to add_parent_tags_for_subcategories: consolidated,
\* with the infobox category appended if not present.
TagsWithInfobox(data) ==
    LET key == infobox_key(data.infobox)
        tags == consolidate_tags(LowerStrs(data.tags))
    IN  IF key # "" /\ key \notin Range(tags) THEN Append(tags, key) ELSE tags

\* FirstCategory without the break: the last matching key wins.
RECURSIVE FirstCategoryLast(_, _)
FirstCategoryLast(tags, n) ==
    IF n > Len(CATEGORY_RULES) THEN None
    ELSE LET later == FirstCategoryLast(tags, n + 1)
         IN  IF later # None THEN later
             ELSE IF Lower(CATEGORY_RULES[n][1]) \in Range(tags)
                  THEN CATEGORY_RULES[n][2]
                  ELSE None

\* The folder of the first key of CATEGORY_RULES, from the n-th on, that is
\* among the tags; None when there is none.
RECURSIVE FirstCategory(_, _)
FirstCategory(tags, n) ==
    IF n > Len(CATEGORY_RULES) THEN None
    ELSE IF Lower(CATEGORY_RULES[n][1]) \in Range(tags)
         THEN CATEGORY_RULES[n][2]
         ELSE FirstCategory(tags, n + 1)

\* main_folder without the fallback to DEFAULT_FOLDER.
MainFolderNoDefault(key, tags) ==
    LET by_infobox == IF key # "" THEN DictGet(CATEGORY_RULES, key, None) ELSE None
    IN  IF by_infobox # None THEN by_infobox ELSE FirstCategory(tags, 1)

\* main_folder
MainFolder(key, tags) ==
    LET by_infobox == IF key # "" THEN DictGet(CATEGORY_RULES, key, None) ELSE None
        by_tags == IF by_infobox # None THEN by_infobox ELSE FirstCategory(tags, 1)
    IN  IF by_tags # None THEN by_tags ELSE DEFAULT_FOLDER

\* subfolder: that of the first tag of the list that is a key of subcats.
RECURSIVE Subfolder(_, _)
Subfolder(subcats, tags) ==
    IF tags = << >> THEN None
    ELSE IF HasKey(subcats, Head(tags))
         THEN DictGet(subcats, Head(tags), None)
         ELSE Subfolder(subcats, Tail(tags))

\* classify_file, given the list add_parent_tags_for_subcategories returned.
ClassifyWith(data, tags) ==
    LET main_folder == MainFolder(infobox_key(data.infobox), tags)
    IN  [ main_folder |-> main_folder,
          subfolder |-> Subfolder(DictGet(SUBCATEGORY_RULES, main_folder, << >>), tags),
          tags |-> tags ]

\* What classify_file(yaml_data) can return.
classify_file(data) ==
    { ClassifyWith(data, r[1]) :
        r \in add_parent_tags_for_subcategories(TagsWithInfobox(data)) }


\* ------------------------------------------------- the functions, called

\* The tag lists of at most MaxTags entries.
TagLists == UNION { [1..n -> RawTags] : n \in 0..MaxTags }

\* The metadata of a note, as classify_file reads it.
YamlData == [tags : TagLists, infobox : RawInfobox]

\* What is kept of a result of classify_file: the folders, and the labels of
\* the returned list (its order is the iteration order of a set).
Observed(r) ==
    [main_folder |-> r.main_folder, subfolder |-> r.subfolder, tags |-> Range(r.tags)]

NoResult == [main_folder |-> None, subfolder |-> None, tags |-> {}]

NoVault ==
    /\ vault0 = {}
    /\ vault = {}
    /\ walk = [dirs |-> << >>, root |-> << >>, files |-> << >>]
    /\ tag_to_files_map = {}

InitFn ==
    /\ pc = "start"
    /\ yaml_data \in YamlData
    /\ once = << >>
    /\ twice = << >>
    /\ parents = << << >>, FALSE >>
    /\ result = NoResult
    /\ other_data = [tags |-> << >>, infobox |-> ""]
    /\ other_result = NoResult
    /\ NoVault

\* consolidate_tags(tags) on a list of strings (tag.lower() raises on
\* anything else).
Consolidate ==
    /\ pc = "start"
    /\ \A i \in 1..Len(yaml_data.tags) : IsStr(yaml_data.tags[i])
    /\ once' = consolidate_tags(yaml_data.tags)
    /\ pc' = "consolidated"
    /\ UNCHANGED <<yaml_data, twice, parents, result, other_data, other_result, vaultvars>>

\* consolidate_tags on what consolidate_tags returned.
ConsolidateAgain ==
    /\ pc = "consolidated"
    /\ twice' = consolidate_tags(once)
    /\ pc' = "reconsolidated"
    /\ UNCHANGED <<yaml_data, once, parents, result, other_data, other_result, vaultvars>>

\* add_parent_tags_for_subcategories(tags)
AddParents ==
    /\ pc = "start"
    /\ parents' \in add_parent_tags_for_subcategories(yaml_data.tags)
    /\ pc' = "inferred"
    /\ UNCHANGED <<yaml_data, once, twice, result, other_data, other_result, vaultvars>>

\* classify_file(yaml_data)
Classify ==
    /\ pc = "start"
    /\ result' \in {Observed(r) : r \in classify_file(yaml_data)}
    /\ pc' = "classified"
    /\ UNCHANGED <<yaml_data, once, twice, parents, other_data, other_result, vaultvars>>

\* classify_file on a second metadata whose tag list holds the same labels,
\* in any order and with any duplicates, and the same infobox.
ClassifyOther ==
    /\ pc = "classified"
    /\ \E tags \in UNION { [1..n -> Range(yaml_data.tags)] : n \in 0..MaxTags } :
          /\ Range(tags) = Range(yaml_data.tags)
          /\ other_data' = [tags |-> tags, infobox |-> yaml_data.infobox]
    /\ other_result' \in {Observed(r) : r \in classify_file(other_data')}
    /\ pc' = "compared"
    /\ UNCHANGED <<yaml_data, once, twice, parents, result, vaultvars>>

NextFn ==
    \/ Consolidate
    \/ ConsolidateAgain
    \/ AddParents
    \/ Classify

\* Each function applied to every metadata of the bounded universe.
SpecFn == InitFn /\ [][NextFn]_vars

NextPair ==
    \/ Classify
    \/ ClassifyOther

\* classify_file applied to two metadata with the same labels and infobox.
SpecPair == InitFn /\ [][NextPair]_vars


\* ----------------------------------------------------------- organize_vault

\* A directory is the sequence of the segments of its path relative to the
\* vault root; the root is the empty sequence.
RootDir == << >>

IndexDir == << "_indexes" >>

\* The directories a vault holds files in when organize_vault starts.
Dirs == { RootDir, << "inbox" >>, << "6_Lore" >>, << "6_Lore_drafts" >>, IndexDir }

\* A file name: its base, the number move_file appended to the base (0 for
\* none) and its extension.
FileName(base, ext) == [base |-> base, count |-> 0, ext |-> ext]

Names ==
    { FileName("note", ".md"), FileName("Template_note", ".md"),
      FileName("note", ".txt") }

\* What follows the frontmatter of a file, stripped.
Bodies == { "text", "1.  REDIRECT target" }

\* The frontmatter of the notes.
NoteData ==
    { [tags |-> << "ruins", "nations" >>, infobox |-> ""],
      [tags |-> << "cities" >>, infobox |-> ""],
      [tags |-> << "lore" >>, infobox |-> ""] }

\* The files a vault is made of.  links is what an index file lists; origin
\* is where the file was when organize_vault started.
Files ==
    { [dir |-> d, name |-> n, body |-> b, data |-> y, links |-> {},
       origin |-> [dir |-> d, name |-> n]] :
        d \in Dirs, n \in Names, b \in Bodies, y \in NoteData }

SamePath(f, g) == f.dir = g.dir /\ f.name = g.name

\* The vaults of at most n files, no two at the same path.
RECURSIVE Vaults(_)
Vaults(n) ==
    IF n = 0 THEN { {} }
    ELSE LET smaller == Vaults(n - 1)
         IN  smaller
             \cup { V \cup {f} : V \in smaller, f \in Files }

ValidVault(V) == V # {} /\ \A f, g \in V : SamePath(f, g) => f = g

\* filename.endswith(".md")
IsMd(name) == name.ext = ".md"

\* filename.startswith("Template_")
IsTemplate(name) == name.base = "Template_note"

\* YAML_FRONTMATTER_REGEX.sub("", content).strip().startswith("1.  REDIRECT ")
IsRedirect(body) == body = "1.  REDIRECT target"

\* set(CATEGORY_RULES.values()) | {DEFAULT_FOLDER, "_indexes"}
skip_folders ==
    {CATEGORY_RULES[i][2] : i \in 1..Len(CATEGORY_RULES)}
    \cup {DEFAULT_FOLDER, "_indexes"}

\* str.startswith, for a path segment and a folder name
StartsWith(s, prefix) ==
    \/ s = prefix
    \/ s = "6_Lore_drafts" /\ prefix = "6_Lore"

\* any(rel_root.startswith(f) for f in skip_folders)
\*     or "_indexes" in rel_root.split(os.sep)
SkipDir(rel_root) ==
    \/ /\ rel_root # << >>
       /\ \E f \in skip_folders : StartsWith(rel_root[1], f)
    \/ "_indexes" \in Range(rel_root)

\* target_folder: os.path.join(main_folder, subfolder) when there is one.
TargetFolder(r) ==
    IF r.subfolder # None THEN << r.main_folder, r.subfolder >>
    ELSE << r.main_folder >>

Exists(V, dir, name) == \E g \in V : g.dir = dir /\ g.name = name

\* move_file's destination name: the file's own, or the first of base_1,
\* base_2, ... that does not exist in the destination folder.
DestName(V, dir, name) ==
    IF ~Exists(V, dir, name) THEN name
    ELSE LET free == {c \in 1..(Cardinality(V) + 1) :
                          ~Exists(V, dir, [name EXCEPT !.count = c])}
         IN  [name EXCEPT !.count = CHOOSE c \in free : \A e \in free : c <= e]

\* The file after update_tags_in_file (when the sets of tags differ) and
\* move_file (when it is not in its target folder).
Organized(V, f, r) ==
    LET data == IF Range(LowerStrs(r.tags)) # Range(LowerStrs(f.data.tags))
                THEN [f.data EXCEPT !.tags = r.tags]
                ELSE f.data
        target == TargetFolder(r)
    IN  IF f.dir # target
        THEN [f EXCEPT !.data = data, !.dir = target,
                       !.name = DestName(V, target, f.name)]
        ELSE [f EXCEPT !.data = data]

\* The vault with a file written or moved to a path: a file that was at
\* the path is overwritten.
Put(V, f) == {g \in V : ~SamePath(g, f)} \cup {f}

\* An index file of update_indexes: its header carries the tag, its lines
\* link the paths recorded for the tag.
IndexFile(tag, map) ==
    [dir |-> IndexDir,
     name |-> FileName(tag, ".md"),
     body |-> "index",
     data |-> [tags |-> << ReplaceSpaces(Lower(ReplaceUnderscores(tag))) >>,
               infobox |-> ""],
     links |-> {<< e[2], e[3] >> : e \in {x \in map : x[1] = tag}},
     origin |-> [dir |-> IndexDir, name |-> FileName(tag, ".md")]]

\* The vault after update_indexes: the index files of no tag of the map are
\* removed, and one index file is written for each tag of the map.
update_indexes(V, map) ==
    LET updated_tags == {e[1] : e \in map}
        written == {IndexFile(tag, map) : tag \in updated_tags}
        obsolete == {g \in V : /\ g.dir = IndexDir
                               /\ IsMd(g.name)
                               /\ Lower(g.name.base) \notin updated_tags}
        overwritten == {g \in V : \E w \in written : SamePath(g, w)}
    IN  ((V \ obsolete) \ overwritten) \cup written

InitVault ==
    /\ pc = "walk"
    /\ vault0 \in {V \in Vaults(MaxNotes) : ValidVault(V)}
    /\ vault = vault0
    /\ \E subdirs \in ListsOf({f.dir : f \in vault0} \ {RootDir}) :
           walk = [dirs |-> << RootDir >> \o subdirs, root |-> RootDir,
                   files |-> << >>]
    /\ tag_to_files_map = {}
    /\ yaml_data = [tags |-> << >>, infobox |-> ""]
    /\ once = << >>
    /\ twice = << >>
    /\ parents = << << >>, FALSE >>
    /\ result = NoResult
    /\ other_data = [tags |-> << >>, infobox |-> ""]
    /\ other_result = NoResult

\* os.walk hands the next directory to the loop, with the files it holds;
\* the loop goes on to the next one when the directory is to be skipped.
EnterDir ==
    /\ pc = "walk"
    /\ walk.files = << >>
    /\ walk.dirs # << >>
    /\ LET root == Head(walk.dirs)
       IN  IF SkipDir(root)
           THEN walk' = [walk EXCEPT !.dirs = Tail(@), !.root = root]
           ELSE \E files \in ListsOf({f.name : f \in {g \in vault : g.dir = root}}) :
                    walk' = [dirs |-> Tail(walk.dirs), root |-> root, files |-> files]
    /\ UNCHANGED <<pc, fnvars, vault0, vault, tag_to_files_map>>

\* One pass of the loop over the files of the directory.
HandleFile ==
    /\ pc = "walk"
    /\ walk.files # << >>
    /\ walk' = [walk EXCEPT !.files = Tail(@)]
    /\ LET name == Head(walk.files)
           f == CHOOSE g \in vault : g.dir = walk.root /\ g.name = name
       IN  \/ /\ ~IsMd(name)
              /\ UNCHANGED <<vault, tag_to_files_map>>
           \/ /\ IsMd(name)
              /\ IsTemplate(name) \/ IsRedirect(f.body)
              /\ vault' = vault \ {f}
              /\ UNCHANGED tag_to_files_map
           \/ /\ IsMd(name)
              /\ ~IsTemplate(name)
              /\ ~IsRedirect(f.body)
              /\ \E r \in classify_file(f.data) :
                    /\ tag_to_files_map' =
                           tag_to_files_map
                           \cup {<< Lower(t), f.dir, f.name >> : t \in Range(r.tags)}
                    /\ vault' = Put(vault \ {f}, Organized(vault, f, r))
    /\ UNCHANGED <<pc, fnvars, vault0>>

\* After the walk: update_indexes, and organize_vault returns.
Finish ==
    /\ pc = "walk"
    /\ walk.files = << >>
    /\ walk.dirs = << >>
    /\ vault' = update_indexes(vault, tag_to_files_map)
    /\ pc' = "done"
    /\ UNCHANGED <<fnvars, vault0, walk, tag_to_files_map>>

Next ==
    \/ EnterDir
    \/ HandleFile
    \/ Finish

\* organize_vault on every vault of the bounded universe.
Spec == InitVault /\ [][Next]_vars

\* ------------------------------------------- the claims on the functions

\* The labels of the metadata given, and whether all of them are strings.
GivenLabels == Range(yaml_data.tags)

AllStr == \A t \in GivenLabels : IsStr(t)

\* The keys of CATEGORY_RULES among a set of labels.
RootsIn(labels) == {k \in Keys(CATEGORY_RULES) : k \in labels}

\* The folder of the key of CATEGORY_RULES declared first among the labels.
FirstDeclaredFolder(labels) ==
    LET first == CHOOSE i \in 1..Len(CATEGORY_RULES) :
                     /\ CATEGORY_RULES[i][1] \in labels
                     /\ \A j \in 1..(i - 1) : CATEGORY_RULES[j][1] \notin labels
    IN  CATEGORY_RULES[first][2]

\* The subcategory rules of a folder, and the labels that have a path under it.
SubcatsOf(folder) == DictGet(SUBCATEGORY_RULES, folder, << >>)

Candidates(folder, labels) == {t \in labels : HasKey(SubcatsOf(folder), t)}

\* The path of a label under a folder: the folder, then its subcategory.
PathOf(folder, tag) == << folder, DictGet(SubcatsOf(folder), tag, None) >>

\* The place of a label in the declaration order of a folder's rules.
DeclaredAt(folder, tag) ==
    CHOOSE i \in 1..Len(SubcatsOf(folder)) : SubcatsOf(folder)[i][1] = tag

\* The path classify_file returned: the main folder, then the subfolder.
ResultPath(r) ==
    IF r.subfolder = None THEN << r.main_folder >> ELSE << r.main_folder, r.subfolder >>

\* path ends with Locations/Settlements/Cities
EndsWithSettlementsCities(path) ==
    /\ Len(path) >= 3
    /\ path[Len(path) - 2] \in {"Locations", "2_Locations"}
    /\ path[Len(path) - 1] = "Settlements"
    /\ path[Len(path)] = "Cities"

\* C1: two metadata whose tag lists hold the same labels (in any order, with
\* any duplicates) and the same infobox get the same main folder, the same
\* subfolder and the same set of resolved labels from classify_file.
C1_SameLabelsSameResult ==
    pc = "compared" => other_result = result

\* C2: classify_file returns the subcategory of a label whose path under the
\* main folder has the most segments, and for the tags ruins and cities the
\* returned path ends with Locations/Settlements/Cities.
C2_DeepestPathWins ==
    pc = "classified" =>
        LET cands == Candidates(result.main_folder, result.tags)
        IN  /\ cands # {} =>
                \E t \in cands :
                    /\ \A u \in cands :
                           Len(PathOf(result.main_folder, u))
                               <= Len(PathOf(result.main_folder, t))
                    /\ ResultPath(result) = PathOf(result.main_folder, t)
            /\ (AllStr /\ GivenLabels = {"ruins", "cities"}
                       /\ infobox_key(yaml_data.infobox) = "") =>
                EndsWithSettlementsCities(ResultPath(result))

\* C3: when several labels tie at the greatest path depth under the main
\* folder, classify_file returns the subcategory of the one declared
\* earliest in the rules.
C3_EarliestDeclaredWinsTie ==
    pc = "classified" =>
        LET cands == Candidates(result.main_folder, result.tags)
            deepest == {t \in cands : \A u \in cands :
                            Len(PathOf(result.main_folder, u))
                                <= Len(PathOf(result.main_folder, t))}
        IN  deepest # {} =>
                \E t \in deepest :
                    /\ \A u \in deepest :
                           DeclaredAt(result.main_folder, t)
                               <= DeclaredAt(result.main_folder, u)
                    /\ ResultPath(result) = PathOf(result.main_folder, t)

C5_TotalWithFallback ==
    /\ pc = "start" => classify_file(yaml_data) # {}
    /\ (pc = "classified" /\ RootsIn(result.tags) = {}) =>
           /\ result.main_folder = DEFAULT_FOLDER
           /\ result.subfolder = None
    /\ (pc = "classified" /\ yaml_data.tags = << >>) => result.tags = {}

\* C5, amended: as claimed, but for the empty tag list the resolved label
\* set is empty when the infobox maps to no category key, and holds exactly
\* that key when it maps to one.
C5_TotalWithFallbackAndInfobox ==
    /\ pc = "start" => classify_file(yaml_data) # {}
    /\ (pc = "classified" /\ RootsIn(result.tags) = {}) =>
           /\ result.main_folder = DEFAULT_FOLDER
           /\ result.subfolder = None
    /\ (pc = "classified" /\ yaml_data.tags = << >>) =>
           result.tags = IF infobox_key(yaml_data.infobox) = "" THEN {}
                         ELSE {infobox_key(yaml_data.infobox)}

\* The empty tag list, and a list of no category, fall back to the default.
C5_Witness ==
    /\ pc = "classified"
    /\ yaml_data.tags = << >>
    /\ yaml_data.infobox = "book"
    /\ result = [main_folder |-> DEFAULT_FOLDER, subfolder |-> None, tags |-> {}]

\* C6: consolidate_tags(consolidate_tags(L)) = consolidate_tags(L).
C6_ConsolidateIdempotent ==
    pc = "reconsolidated" => twice = once

\* A padded upper-case label and a synonym with an underscore, consolidated
\* twice.
C6_Witness ==
    /\ pc = "reconsolidated"
    /\ yaml_data.tags = << " Lore", "mountain_ranges" >>
    /\ once = << "lore", "mountains" >>
    /\ twice = once

\* A key of the synonym table that maps to another label.
IsSynonymSource(label) ==
    /\ HasKey(TAG_CONSOLIDATION, label)
    /\ DictGet(TAG_CONSOLIDATION, label, label) # label

\* C7: no element of the output of consolidate_tags is, once lowercased,
\* with underscores read as spaces and trimmed, a synonym source.
C7_NoSynonymSourceSurvives ==
    pc = "consolidated" =>
        \A i \in 1..Len(once) :
            ~IsSynonymSource(Strip(ReplaceUnderscores(Lower(once[i]))))

\* Two synonym sources on one note: only their targets come out.
C7_Witness ==
    /\ pc = "consolidated"
    /\ yaml_data.tags = << "forts", "mountain_ranges" >>
    /\ once = << "fortifications", "mountains" >>

\* The folders of SUBCATEGORY_RULES under which a label has a path.
FoldersOf(label) ==
    {f \in Keys(SUBCATEGORY_RULES) : HasKey(SubcatsOf(f), label)}

\* The labels add_parent_tags_for_subcategories returned.
ParentLabels == Range(parents[1])

\* C8: after add_parent_tags_for_subcategories, for every label of the input
\* with a path in the hierarchy the returned set holds a category-root label
\* of that path and every intermediate segment of it, and the flag is True
\* if one was missing; for the input cities the result holds settlements and
\* locations and the flag is True.
C8_AncestorClosure ==
    pc = "inferred" =>
        /\ \A t \in tags_lower(yaml_data.tags) : \A f \in FoldersOf(t) :
               LET roots == {k \in Keys(CATEGORY_RULES) :
                                 DictGet(CATEGORY_RULES, k, None) = f}
               IN  /\ roots \cap ParentLabels # {}
                   /\ roots \cap tags_lower(yaml_data.tags) = {} => parents[2]
        /\ GivenLabels = {"cities"} =>
               /\ {"settlements", "locations"} \subseteq ParentLabels
               /\ parents[2]

\* A label in lower case without surrounding whitespace.
PlainForm(t) == IsStr(t) /\ Lower(t) = t /\ Strip(t) = t

\* A label with no entry in CATEGORY_RULES or SUBCATEGORY_RULES.
NoHierarchyEntry(t) == t \notin Keys(CATEGORY_RULES) /\ FoldersOf(t) = {}

\* The given labels are plain and none has an entry in the hierarchy tables.
UnknownLabels == \A t \in GivenLabels : PlainForm(t) /\ NoHierarchyEntry(t)

\* No given label is a synonym source, and no two are the same but for
\* underscores and spaces.
NoSynonyms ==
    /\ \A t \in GivenLabels : ~IsSynonymSource(ReplaceUnderscores(t))
    /\ \A t, u \in GivenLabels :
           ReplaceUnderscores(t) = ReplaceUnderscores(u) => t = u

\* The flag is True exactly when the returned set holds a label the input,
\* in lower case, did not.
FlagIffAdded ==
    (pc = "inferred" /\ \A t \in GivenLabels : IsStr(t) => Lower(t) = t) =>
        (parents[2] <=> \E t \in ParentLabels : t \notin GivenLabels)

NoteToPlace(f) ==
    /\ IsMd(f.name)
    /\ ~IsTemplate(f.name)
    /\ ~IsRedirect(f.body)
    /\ f.dir # << >> => f.dir[1] \notin skip_folders
    /\ "_indexes" \notin Range(f.dir)

\* The folders the claim names for the tags of its examples.
ClaimedFolder(data) ==
    CASE data.tags = << "ruins", "nations" >> -> << "2_Locations", "Ruins" >>
      [] data.tags = << "cities" >> -> << "2_Locations", "Settlements", "Cities" >>
      [] data.tags = << "lore" >> -> << "6_Lore" >>

\* C10: when organize_vault has finished, every note to place is in the
\* vault, under the main folder and subfolder classify_file returns for its
\* metadata, which for the tags ruins and nations is 2_Locations/Ruins, for
\* cities 2_Locations/Settlements/Cities and for lore 6_Lore.
C10_NotesPlaced ==
    pc = "done" =>
        \A f \in vault0 :
            NoteToPlace(f) =>
                \E g \in vault :
                    /\ g.origin = [dir |-> f.dir, name |-> f.name]
                    /\ \E r \in classify_file(f.data) : g.dir = TargetFolder(r)
                    /\ g.dir = ClaimedFolder(f.data)

=============================================================================
